---- MODULE Spec2Model ----
(***************************************************************************)
(* Model of the Airtable -> GitHub exporter (src/src/main.ts).             *)
(*                                                                         *)
(* One invocation of main() is a chain of asynchronous segments: the code  *)
(* between two awaits runs without interruption, so every action below is  *)
(* one such segment: it consumes the response of the call the run is       *)
(* waiting for and runs the code up to the next call it issues.            *)
(*                                                                         *)
(* Strings are sequences of UTF-16 code units (JavaScript strings), byte   *)
(* buffers are sequences of 0..255.                                        *)
(***************************************************************************)
EXTENDS Integers, Sequences, FiniteSets, TLC

\* ------------------------------------------------------------------------
\* Bounds of the model
\* ------------------------------------------------------------------------

\* Largest number of records the source table holds.
MaxRecords == 2

\* Number of invocations of the exporter that may overlap.
NumRuns == 2

\* Largest number of manual edits of the destination file.
MaxEdits == 2

\* ------------------------------------------------------------------------
\* JSON-compatible values (what a record's field can hold)
\* ------------------------------------------------------------------------

\* Every value has the same shape: t is its type, n its number (or 0/1 for a
\* boolean), s its string, m its members (<<key, value>> pairs; an array's
\* keys are empty).
JV(t, n, s, m) == [t |-> t, n |-> n, s |-> s, m |-> m]

JNull == JV("null", 0, <<>>, <<>>)

JBool(b) == JV("bool", IF b THEN 1 ELSE 0, <<>>, <<>>)

JNum(n) == JV("num", n, <<>>, <<>>)

JStr(s) == JV("str", 0, s, <<>>)

JArr(vs) == JV("arr", 0, <<>>, [i \in 1..Len(vs) |-> [k |-> <<>>, v |-> vs[i]]])

JObj(ms) == JV("obj", 0, <<>>, ms)

\* The concatenation of the sequences pieces[lo], ..., pieces[hi].
RECURSIVE Concat(_, _, _)
Concat(pieces, lo, hi) ==
    IF lo > hi THEN <<>>
    ELSE IF lo = hi THEN pieces[lo]
    ELSE LET mid == (lo + hi) \div 2
         IN  Concat(pieces, lo, mid) \o Concat(pieces, mid + 1, hi)

\* ------------------------------------------------------------------------
\* toJSON: JSON.stringify(data, null, 2)
\* ------------------------------------------------------------------------

\* The third argument of JSON.stringify: the number of spaces of one level.
IndentWidth == 2

Spaces(n) == [i \in 1..n |-> 32]

RECURSIVE Digits(_)
Digits(n) == IF n < 10 THEN <<48 + n>> ELSE Digits(n \div 10) \o <<48 + (n % 10)>>

NumberToString(n) == IF n < 0 THEN <<45>> \o Digits(0 - n) ELSE Digits(n)

HexDigit(d) == IF d < 10 THEN 48 + d ELSE 87 + d

\* \uXXXX, lowercase hexadecimal
UnicodeEscape(c) ==
    <<92, 117, HexDigit(c \div 4096), HexDigit((c \div 256) % 16),
      HexDigit((c \div 16) % 16), HexDigit(c % 16)>>

IsLeadSurrogate(c) == c >= 55296 /\ c <= 56319

IsTrailSurrogate(c) == c >= 56320 /\ c <= 57343

\* The code unit s[i] is half of a surrogate pair (a lead followed by a trail).
InSurrogatePair(s, i) ==
    \/ IsLeadSurrogate(s[i]) /\ i < Len(s) /\ IsTrailSurrogate(s[i + 1])
    \/ IsTrailSurrogate(s[i]) /\ i > 1 /\ IsLeadSurrogate(s[i - 1])

\* QuoteJSONString of ECMAScript (well-formed JSON.stringify): what one code
\* unit that is not half of a surrogate pair becomes.
QuoteCodeUnit(c) ==
    CASE c = 34 -> <<92, 34>>
      [] c = 92 -> <<92, 92>>
      [] c = 8  -> <<92, 98>>
      [] c = 12 -> <<92, 102>>
      [] c = 10 -> <<92, 110>>
      [] c = 13 -> <<92, 114>>
      [] c = 9  -> <<92, 116>>
      [] OTHER  -> IF c < 32 \/ IsLeadSurrogate(c) \/ IsTrailSurrogate(c)
                   THEN UnicodeEscape(c)
                   ELSE <<c>>

QuoteJSONString(s) ==
    <<34>>
    \o Concat([i \in 1..Len(s) |->
                 IF InSurrogatePair(s, i) THEN <<s[i]>> ELSE QuoteCodeUnit(s[i])],
              1, Len(s))
    \o <<34>>

RECURSIVE SerializeJSONProperty(_, _)
RECURSIVE SerializeMembers(_, _, _, _)

\* The members of an object or array from the i-th on, each on a line of its
\* own at indentation `indent`, separated by ",".
SerializeMembers(ms, i, isObject, indent) ==
    IF i > Len(ms) THEN <<>>
    ELSE (IF i > 1 THEN <<44>> ELSE <<>>)
         \o <<10>> \o indent
         \o (IF isObject THEN QuoteJSONString(ms[i].k) \o <<58, 32>> ELSE <<>>)
         \o SerializeJSONProperty(ms[i].v, indent)
         \o SerializeMembers(ms, i + 1, isObject, indent)

\* value at indentation `indent` (the spaces in front of its closing bracket)
SerializeJSONProperty(value, indent) ==
    CASE value.t = "null" -> <<110, 117, 108, 108>>
      [] value.t = "bool" -> IF value.n = 1 THEN <<116, 114, 117, 101>>
                                            ELSE <<102, 97, 108, 115, 101>>
      [] value.t = "num"  -> NumberToString(value.n)
      [] value.t = "str"  -> QuoteJSONString(value.s)
      [] value.t = "arr"  ->
            IF value.m = <<>> THEN <<91, 93>>
            ELSE <<91>>
                 \o SerializeMembers(value.m, 1, FALSE, indent \o Spaces(IndentWidth))
                 \o <<10>> \o indent \o <<93>>
      [] value.t = "obj"  ->
            IF value.m = <<>> THEN <<123, 125>>
            ELSE <<123>>
                 \o SerializeMembers(value.m, 1, TRUE, indent \o Spaces(IndentWidth))
                 \o <<10>> \o indent \o <<125>>

\* const toJSON = (data) => JSON.stringify(data, null, 2)
toJSON(data) == SerializeJSONProperty(data, <<>>)

\* ------------------------------------------------------------------------
\* toBase64: Buffer.from(data).toString("base64")
\* ------------------------------------------------------------------------

\* UTF-8 of one code point
Utf8OfCodePoint(cp) ==
    IF cp < 128 THEN <<cp>>
    ELSE IF cp < 2048 THEN <<192 + (cp \div 64), 128 + (cp % 64)>>
    ELSE IF cp < 65536
         THEN <<224 + (cp \div 4096), 128 + ((cp \div 64) % 64), 128 + (cp % 64)>>
         ELSE <<240 + (cp \div 262144), 128 + ((cp \div 4096) % 64),
                128 + ((cp \div 64) % 64), 128 + (cp % 64)>>

\* Buffer.from(string) encodes as UTF-8: a surrogate pair is one code point,
\* a lone surrogate becomes U+FFFD.
Utf8OfCodeUnit(s, i) ==
    IF IsLeadSurrogate(s[i]) /\ i < Len(s) /\ IsTrailSurrogate(s[i + 1])
    THEN Utf8OfCodePoint(65536 + (s[i] - 55296) * 1024 + (s[i + 1] - 56320))
    ELSE IF IsTrailSurrogate(s[i]) /\ i > 1 /\ IsLeadSurrogate(s[i - 1])
    THEN <<>>
    ELSE IF IsLeadSurrogate(s[i]) \/ IsTrailSurrogate(s[i])
    THEN Utf8OfCodePoint(65533)
    ELSE Utf8OfCodePoint(s[i])

BufferFrom(s) == Concat([i \in 1..Len(s) |-> Utf8OfCodeUnit(s, i)], 1, Len(s))

\* The base64 alphabet: A-Z a-z 0-9 + /
Base64Char(i) ==
    IF i < 26 THEN 65 + i
    ELSE IF i < 52 THEN 71 + i
    ELSE IF i < 62 THEN i - 4
    ELSE IF i = 62 THEN 43 ELSE 47

\* Three bytes become four characters; a last group of one or two bytes is
\* padded with "=".
BufferToStringBase64(b) ==
    [j \in 1..(4 * ((Len(b) + 2) \div 3)) |->
        LET g  == (j - 1) \div 4
            p  == (j - 1) % 4
            b0 == b[3 * g + 1]
            b1 == IF 3 * g + 2 <= Len(b) THEN b[3 * g + 2] ELSE 0
            b2 == IF 3 * g + 3 <= Len(b) THEN b[3 * g + 3] ELSE 0
        IN  CASE p = 0 -> Base64Char(b0 \div 4)
              [] p = 1 -> Base64Char((b0 % 4) * 16 + (b1 \div 16))
              [] p = 2 -> IF 3 * g + 2 <= Len(b)
                          THEN Base64Char((b1 % 16) * 4 + (b2 \div 64))
                          ELSE 61
              [] p = 3 -> IF 3 * g + 3 <= Len(b) THEN Base64Char(b2 % 64) ELSE 61]

\* toBase64 with a one-byte encoding: Buffer.from(data, "latin1")
toBase64Latin1(data) == BufferToStringBase64([i \in 1..Len(data) |-> data[i] % 256])

\* const toBase64 = (data) => Buffer.from(data).toString("base64")
toBase64(data) == BufferToStringBase64(BufferFrom(data))

\* ------------------------------------------------------------------------
\* Reference decoders: what a reader of the destination file does with the
\* uploaded content (base64 -> bytes -> UTF-8 text -> JSON.parse).  They are
\* not code of the exporter; the round-trip properties are stated with them.
\* ------------------------------------------------------------------------

Base64Index(c) ==
    IF c >= 65 /\ c <= 90 THEN c - 65
    ELSE IF c >= 97 /\ c <= 122 THEN c - 71
    ELSE IF c >= 48 /\ c <= 57 THEN c + 4
    ELSE IF c = 43 THEN 62 ELSE 63

Base64Decode(s) ==
    LET groups == Len(s) \div 4
        pad    == IF groups = 0 THEN 0
                  ELSE IF s[4 * groups - 1] = 61 THEN 2
                  ELSE IF s[4 * groups] = 61 THEN 1 ELSE 0
    IN  [j \in 1..(3 * groups - pad) |->
            LET g == (j - 1) \div 3
                p == (j - 1) % 3
                a == Base64Index(s[4 * g + 1])
                b == Base64Index(s[4 * g + 2])
                c == Base64Index(s[4 * g + 3])
                d == Base64Index(s[4 * g + 4])
            IN  CASE p = 0 -> a * 4 + (b \div 16)
                  [] p = 1 -> (b % 16) * 16 + (c \div 4)
                  [] p = 2 -> (c % 4) * 64 + d]

IsContinuation(b, i) == i >= 1 /\ i <= Len(b) /\ b[i] >= 128 /\ b[i] < 192

\* the length of the UTF-8 sequence a byte starts (0: it starts none)
Utf8Length(b0) ==
    IF b0 < 128 THEN 1
    ELSE IF b0 >= 192 /\ b0 < 224 THEN 2
    ELSE IF b0 >= 224 /\ b0 < 240 THEN 3
    ELSE IF b0 >= 240 /\ b0 < 248 THEN 4 ELSE 0

\* a well-formed UTF-8 sequence starts at b[i]
Utf8StartsAt(b, i) ==
    /\ i >= 1 /\ i <= Len(b)
    /\ Utf8Length(b[i]) >= 1
    /\ \A k \in 1..(Utf8Length(b[i]) - 1) : IsContinuation(b, i + k)

\* What the byte b[i] contributes: the code units of the sequence it starts,
\* nothing if it continues a sequence, U+FFFD if it is malformed.
Utf8DecodeAt(b, i) ==
    IF Utf8StartsAt(b, i)
    THEN CASE Utf8Length(b[i]) = 1 -> <<b[i]>>
           [] Utf8Length(b[i]) = 2 -> <<(b[i] - 192) * 64 + (b[i + 1] - 128)>>
           [] Utf8Length(b[i]) = 3 ->
                <<(b[i] - 224) * 4096 + (b[i + 1] - 128) * 64 + (b[i + 2] - 128)>>
           [] Utf8Length(b[i]) = 4 ->
                LET cp == (b[i] - 240) * 262144 + (b[i + 1] - 128) * 4096
                          + (b[i + 2] - 128) * 64 + (b[i + 3] - 128) - 65536
                IN  <<55296 + (cp \div 1024), 56320 + (cp % 1024)>>
    ELSE IF \E k \in 1..3 : Utf8StartsAt(b, i - k) /\ Utf8Length(b[i - k]) > k
    THEN <<>>
    ELSE <<65533>>

Utf8Decode(b) == Concat([i \in 1..Len(b) |-> Utf8DecodeAt(b, i)], 1, Len(b))

\* The text a reader gets from an uploaded base64 content.
DecodeContent(content) == Utf8Decode(Base64Decode(content))

\* JSON.parse.  A parse result is [ok, v, i]: whether a value was read, the
\* value, and the position after it.
ParseFail == [ok |-> FALSE, v |-> JNull, i |-> 0]

ParseOk(v, i) == [ok |-> TRUE, v |-> v, i |-> i]

IsWhitespace(c) == c \in {32, 10, 13, 9}

IsDigit(c) == c >= 48 /\ c <= 57

RECURSIVE SkipWhitespace(_, _)
SkipWhitespace(s, i) ==
    IF i <= Len(s) /\ IsWhitespace(s[i]) THEN SkipWhitespace(s, i + 1) ELSE i

HexValue(c) == IF IsDigit(c) THEN c - 48 ELSE IF c >= 97 THEN c - 87 ELSE c - 55

SimpleEscape(c) ==
    CASE c = 98 -> 8 [] c = 102 -> 12 [] c = 110 -> 10 [] c = 114 -> 13
      [] c = 116 -> 9 [] OTHER -> c

\* the characters of a string after its opening quote
RECURSIVE ParseChars(_, _, _)
ParseChars(s, i, acc) ==
    IF i > Len(s) THEN ParseFail
    ELSE IF s[i] = 34 THEN ParseOk(JStr(acc), i + 1)
    ELSE IF s[i] = 92
         THEN IF i + 1 > Len(s) THEN ParseFail
              ELSE IF s[i + 1] = 117
                   THEN IF i + 5 > Len(s) THEN ParseFail
                        ELSE ParseChars(s, i + 6,
                               Append(acc, HexValue(s[i + 2]) * 4096
                                           + HexValue(s[i + 3]) * 256
                                           + HexValue(s[i + 4]) * 16
                                           + HexValue(s[i + 5])))
                   ELSE ParseChars(s, i + 2, Append(acc, SimpleEscape(s[i + 1])))
         ELSE IF s[i] < 32 THEN ParseFail
              ELSE ParseChars(s, i + 1, Append(acc, s[i]))

RECURSIVE ParseDigits(_, _, _)
ParseDigits(s, i, acc) ==
    IF i <= Len(s) /\ IsDigit(s[i])
    THEN ParseDigits(s, i + 1, acc * 10 + (s[i] - 48))
    ELSE ParseOk(JNum(acc), i)

ParseLiteral(s, i, word, v) ==
    IF i + Len(word) - 1 <= Len(s) /\ SubSeq(s, i, i + Len(word) - 1) = word
    THEN ParseOk(v, i + Len(word))
    ELSE ParseFail

RECURSIVE ParseValue(_, _)
RECURSIVE ParseMembers(_, _, _, _)

\* the members of an object or array, the first of them at or after i
ParseMembers(s, i, isObject, acc) ==
    LET j   == SkipWhitespace(s, i)
        key == IF isObject
               THEN IF j <= Len(s) /\ s[j] = 34 THEN ParseChars(s, j + 1, <<>>)
                                                ELSE ParseFail
               ELSE ParseOk(JStr(<<>>), j)
        c   == SkipWhitespace(s, key.i)
        val == IF ~key.ok THEN ParseFail
               ELSE IF ~isObject THEN ParseValue(s, j)
               ELSE IF c <= Len(s) /\ s[c] = 58 THEN ParseValue(s, c + 1)
               ELSE ParseFail
        n   == SkipWhitespace(s, val.i)
        all == Append(acc, [k |-> key.v.s, v |-> val.v])
    IN  IF ~val.ok \/ n > Len(s) THEN ParseFail
        ELSE IF s[n] = 44 THEN ParseMembers(s, n + 1, isObject, all)
        ELSE IF s[n] = (IF isObject THEN 125 ELSE 93)
             THEN ParseOk(JV(IF isObject THEN "obj" ELSE "arr", 0, <<>>, all), n + 1)
             ELSE ParseFail

ParseValue(s, i) ==
    LET j == SkipWhitespace(s, i)
        e == SkipWhitespace(s, j + 1)
    IN  IF j > Len(s) THEN ParseFail
        ELSE CASE s[j] = 123 ->
                    IF e <= Len(s) /\ s[e] = 125 THEN ParseOk(JObj(<<>>), e + 1)
                    ELSE ParseMembers(s, j + 1, TRUE, <<>>)
               [] s[j] = 91 ->
                    IF e <= Len(s) /\ s[e] = 93 THEN ParseOk(JArr(<<>>), e + 1)
                    ELSE ParseMembers(s, j + 1, FALSE, <<>>)
               [] s[j] = 34 -> ParseChars(s, j + 1, <<>>)
               [] s[j] = 116 -> ParseLiteral(s, j, <<116, 114, 117, 101>>, JBool(TRUE))
               [] s[j] = 102 ->
                    ParseLiteral(s, j, <<102, 97, 108, 115, 101>>, JBool(FALSE))
               [] s[j] = 110 -> ParseLiteral(s, j, <<110, 117, 108, 108>>, JNull)
               [] s[j] = 45 ->
                    IF j + 1 <= Len(s) /\ IsDigit(s[j + 1])
                    THEN LET r == ParseDigits(s, j + 1, 0)
                         IN  ParseOk(JNum(0 - r.v.n), r.i)
                    ELSE ParseFail
               [] IsDigit(s[j]) -> ParseDigits(s, j, 0)
               [] OTHER -> ParseFail

\* [ok, v]: the value of a JSON text, if it is one
JSONParse(s) ==
    LET r == ParseValue(s, 1)
    IN  IF r.ok /\ SkipWhitespace(s, r.i) = Len(s) + 1
        THEN [ok |-> TRUE, v |-> r.v]
        ELSE [ok |-> FALSE, v |-> JNull]

\* ------------------------------------------------------------------------
\* Dates and numbers
\* ------------------------------------------------------------------------

\* A JavaScript number: NaN, or the integer v.
NaN == [nan |-> TRUE, v |-> 0]

Number(v) == [nan |-> FALSE, v |-> v]

\* a - b and a < b of JavaScript: NaN is contagious and compares false.
Minus(a, b) == IF a.nan \/ b.nan THEN NaN ELSE Number(a.v - b.v)

LessThan(a, b) == ~a.nan /\ ~b.nan /\ a.v < b.v

\* days from 1970-01-01 to the (proleptic Gregorian) date y-m-d
DaysFromCivil(y, m, d) ==
    LET yy  == IF m <= 2 THEN y - 1 ELSE y
        era == yy \div 400
        yoe == yy - era * 400
        doy == ((153 * (IF m > 2 THEN m - 3 ELSE m + 9) + 2) \div 5) + d - 1
        doe == yoe * 365 + (yoe \div 4) - (yoe \div 100) + doy
    IN  era * 146097 + doe - 719468

DigitsAt(s, from, to) == \A i \in from..to : s[i] >= 48 /\ s[i] <= 57

RECURSIVE NumberAt(_, _, _)
NumberAt(s, from, to) ==
    IF from > to THEN 0 ELSE NumberAt(s, from, to - 1) * 10 + (s[to] - 48)

\* Date.parse of the timestamp format the table store writes,
\* YYYY-MM-DDTHH:mm:ss.sssZ: milliseconds since the epoch; NaN for a text that
\* is not of this form.
DateParse(s) ==
    IF /\ Len(s) = 24
       /\ DigitsAt(s, 1, 4) /\ s[5] = 45 /\ DigitsAt(s, 6, 7) /\ s[8] = 45
       /\ DigitsAt(s, 9, 10) /\ s[11] = 84 /\ DigitsAt(s, 12, 13) /\ s[14] = 58
       /\ DigitsAt(s, 15, 16) /\ s[17] = 58 /\ DigitsAt(s, 18, 19) /\ s[20] = 46
       /\ DigitsAt(s, 21, 23) /\ s[24] = 90
       /\ NumberAt(s, 6, 7) \in 1..12 /\ NumberAt(s, 9, 10) \in 1..31
       /\ NumberAt(s, 15, 16) <= 59 /\ NumberAt(s, 18, 19) <= 59
       /\ \/ NumberAt(s, 12, 13) <= 23
          \/ /\ NumberAt(s, 12, 13) = 24 /\ NumberAt(s, 15, 16) = 0
             /\ NumberAt(s, 18, 19) = 0 /\ NumberAt(s, 21, 23) = 0
    THEN Number(
            DaysFromCivil(NumberAt(s, 1, 4), NumberAt(s, 6, 7), NumberAt(s, 9, 10))
              * 86400000
            + NumberAt(s, 12, 13) * 3600000 + NumberAt(s, 15, 16) * 60000
            + NumberAt(s, 18, 19) * 1000 + NumberAt(s, 21, 23))
    ELSE NaN

\* The value of a field of a record: [defined, v]; a field the record has not
\* is undefined.
Undefined == [defined |-> FALSE, v |-> JNull]

Defined(v) == [defined |-> TRUE, v |-> v]

FieldOf(fields, name) ==
    IF \E i \in 1..Len(fields.m) : fields.m[i].k = name
    THEN Defined(fields.m[CHOOSE i \in 1..Len(fields.m) : fields.m[i].k = name].v)
    ELSE Undefined

\* new Date(stamp): a Date is its time value, NaN for an Invalid Date.
NewDate(stamp) ==
    IF stamp.defined /\ stamp.v.t = "str" THEN DateParse(stamp.v.s) ELSE NaN

\* Date | null, and a variable that holds nothing yet
NoDate == [kind |-> "unset", time |-> NaN]

NullDate == [kind |-> "null", time |-> NaN]

DateValue(time) == [kind |-> "date", time |-> time]

\* ------------------------------------------------------------------------
\* Configuration
\* ------------------------------------------------------------------------

AIRTABLE_API_KEY == "AIRTABLE_API_KEY"

GITHUB_API_TOKEN == "GITHUB_API_TOKEN"

\* "Last Update"
lastModifiedField == <<76, 97, 115, 116, 32, 85, 112, 100, 97, 116, 101>>

\* timeTreshold: number = 5 * 60   (seconds)
timeTreshold == 5 * 60

\* An environment variable is a string or is not set.
NotSet == [set |-> FALSE, val |-> ""]

SetTo(val) == [set |-> TRUE, val |-> val]

\* envOrDie without its check: an unset variable reads as "undefined"
envOrDieUnchecked(environment, key) ==
    LET val == environment[key]
    IN  [threw |-> FALSE, val |-> IF val.set THEN val.val ELSE "undefined",
         error |-> ""]

\* function envOrDie(key): [threw, val, error]
envOrDie(environment, key) ==
    LET val == environment[key]
    IN  IF ~val.set
        THEN [threw |-> TRUE, val |-> "",
              error |-> "Please define the " \o key \o " env variable."]
        ELSE [threw |-> FALSE, val |-> val.val, error |-> ""]

\* A configuration record that is not constructed, and one that is.  The
\* fields other than the credential are literals of main().
NoConfig == [built |-> FALSE, apiKey |-> ""]

\* a configuration that replaces an empty credential by a default
ConfigWithDefault(apiKey) ==
    [built |-> TRUE, apiKey |-> IF apiKey = "" THEN "anonymous" ELSE apiKey]

Config(apiKey) == [built |-> TRUE, apiKey |-> apiKey]

\* ------------------------------------------------------------------------
\* The pipeline's pure steps
\* ------------------------------------------------------------------------

\* getLastAirtableModificationTime without the test for a missing record
getLastAirtableModificationTimeUnguarded(found) ==
    DateValue(NewDate(IF found # <<>> THEN FieldOf(found[1].fields, lastModifiedField)
                                      ELSE Undefined))

\* getLastAirtableModificationTime, after the query returned `found`: the
\* Date of the first record's field, null if there is no record.
getLastAirtableModificationTime(found) ==
    IF found # <<>>
    THEN DateValue(NewDate(FieldOf(found[1].fields, lastModifiedField)))
    ELSE NullDate

\* (now.getTime() - lastUpdate.getTime()) / 1000, kept in milliseconds: the
\* number of seconds is this value over 1000.
TimeSinceLastUpdate(now, lastUpdate) == Minus(Number(now), lastUpdate.time)

\* the gate with <= for <
BelowTresholdInclusive(timeSince, treshold) ==
    ~timeSince.nan /\ timeSince.v <= treshold * 1000

\* the gate comparing milliseconds with seconds (the division by 1000 left out)
BelowTresholdMilliseconds(timeSince, treshold) == LessThan(timeSince, Number(treshold))

\* timeSinceLastUpdate < timeTreshold
BelowTreshold(timeSince, treshold) == LessThan(timeSince, Number(treshold * 1000))

\* matches.map((m) => m.fields)
FieldsOf(records) == JArr([i \in 1..Len(records) |-> records[i].fields])

\* toBase64(toJSON(matches.map((m) => m.fields)))
UploadData(records) == toBase64(toJSON(FieldsOf(records)))

\* what getTargetFileSHA does with the response of axios.get:
\* [threw, sha]; a failed request throws.
NoSHA == [set |-> FALSE, sha |-> <<>>]

\* getTargetFileSHA that catches a failed request and returns undefined
getTargetFileSHASwallowing(response) ==
    [threw |-> FALSE,
     sha   |-> IF response.ok THEN [set |-> TRUE, sha |-> response.sha] ELSE NoSHA]

getTargetFileSHA(response) ==
    IF response.ok THEN [threw |-> FALSE, sha |-> [set |-> TRUE, sha |-> response.sha]]
                   ELSE [threw |-> TRUE, sha |-> NoSHA]

\* the arguments of octokit.repos.createOrUpdateFileContents
NoRequest == [sent |-> FALSE, auth |-> "", sha |-> NoSHA, content |-> <<>>]

CreateOrUpdateRequest(config, sha, content) ==
    [sent |-> TRUE, auth |-> config.apiKey, sha |-> sha, content |-> content]

\* ------------------------------------------------------------------------
\* The two remote systems
\* ------------------------------------------------------------------------

\* The content hash of a file.  A hash is modelled by the content it
\* identifies: two contents have the same hash only if they are equal.
SHAOf(content) == content

NoFile == [exists |-> FALSE, content |-> <<>>]

File(content) == [exists |-> TRUE, content |-> content]

\* GET /repos/.../contents/<path>: fails when there is no file at the path.
ContentsResponse(file) ==
    IF file.exists THEN [ok |-> TRUE, sha |-> SHAOf(file.content)]
                   ELSE [ok |-> FALSE, sha |-> <<>>]

\* The destination takes an update of an existing file only with the file's
\* current hash, creates a file only without a hash, and takes no write
\* without a credential.
DestinationAccepts(request, file) ==
    /\ request.auth # ""
    /\ IF file.exists THEN request.sha.set /\ request.sha.sha = SHAOf(file.content)
                      ELSE ~request.sha.set

\* ------------------------------------------------------------------------
\* Inputs
\* ------------------------------------------------------------------------

Runs == 1..NumRuns

Member(k, v) == [k |-> k, v |-> v]

\* A record of the table: identifier, metadata and field mapping.
Record(id, fields) == [id |-> id, createdTime |-> 0, fields |-> JObj(fields)]

\* {"A": 1}
RecordA == Record(<<114, 49>>, <<Member(<<65>>, JNum(1))>>)

\* {"B": 2}
RecordB == Record(<<114, 50>>, <<Member(<<66>>, JNum(2))>>)

\* a string with a two-, a three- and a four-byte character, a lone surrogate,
\* a quote and a line feed; a list; an empty object
RecordC ==
    Record(<<114, 51>>,
           <<Member(<<83>>, JStr(<<233, 8364, 55357, 56832, 55357, 34, 10>>)),
             Member(<<76>>, JArr(<<JBool(TRUE), JNull, JNum(0 - 7)>>)),
             Member(<<69>>, JObj(<<>>))>>)

RecordPool == {RecordA, RecordB, RecordC}

RECURSIVE SeqsUpTo(_, _)
SeqsUpTo(S, n) ==
    IF n = 0 THEN {<<>>}
    ELSE LET shorter == SeqsUpTo(S, n - 1)
         IN  shorter \cup {Append(q, x) : q \in {p \in shorter : Len(p) = n - 1}, x \in S}

\* what the table can hold when all records are fetched
Tables == SeqsUpTo(RecordPool, MaxRecords)

\* "1970-01-01T00:10:00.000Z": 600000 ms after the epoch
StampText ==
    <<49, 57, 55, 48, 45, 48, 49, 45, 48, 49, 84, 48, 48, 58, 49, 48, 58, 48, 48,
      46, 48, 48, 48, 90>>

\* What the query for the latest record can return: nothing, a record with a
\* timestamp, one with a text that is no timestamp, one without the field.
LatestMatches ==
    { <<>>,
      <<Record(<<114, 49>>, <<Member(lastModifiedField, JStr(StampText))>>)>>,
      <<Record(<<114, 50>>, <<Member(lastModifiedField, JStr(<<110, 47, 97>>))>>)>>,
      <<Record(<<114, 51>>, <<>>)>> }

\* The times new Date() can give, in ms: 60 s before the timestamp above, and
\* 10 s, 299.999 s, 300 s and 301 s after it.
NowValues == {540000, 610000, 899999, 900000, 901000}

EnvValues == {NotSet, SetTo(""), SetTo("secret")}

\* "[]", the file before the first export, and "{}", a manual edit
InitialContent == <<91, 93>>

EditContents == {InitialContent, <<123, 125>>}

\* ------------------------------------------------------------------------
\* State
\* ------------------------------------------------------------------------

VARIABLES
    env,     \* process.env of the deployment
    dest,    \* the destination file
    edits,   \* number of manual edits of the destination so far
    run      \* run[r]: the state of invocation r

vars == <<env, dest, edits, run>>

\* A line of the console: its stream and its text.
Line(level, text) == [level |-> level, text |-> text]

BelowTresholdMessage ==
    "Last update below update treshold (300 seconds), skipping update."

OverTresholdMessage ==
    "Last update time over update treshold, will try to export data."

NoUpdateTimeMessage ==
    "Unable to determine last table update time, no changes done."

\* The errors of the client libraries: a table client made without a key, a
\* request that fails, a write the destination refuses.
ClientKeyError == "An API key is required to connect to Airtable"

RequestFailed == "request failed"

WriteRejected == "write rejected"

\* The top-level handler: main().catch((e) => console.error(e))
TopLevelCatch(console, e) == Append(console, Line("error", e))

\* The status the process exits with once main's promise is settled and
\* handled: nothing sets process.exitCode.
ExitStatus == 0

Running == 0 - 1

InitialRun ==
    [ pc                  |-> "start",
      airtableConfig      |-> NoConfig,
      githubConfig        |-> NoConfig,
      lastUpdate          |-> NoDate,
      timeSinceLastUpdate |-> NaN,
      latest              |-> [set |-> FALSE, records |-> <<>>],
      matches             |-> [set |-> FALSE, records |-> <<>>],
      currentSHA          |-> NoSHA,
      uploadData          |-> <<>>,
      request             |-> NoRequest,
      net                 |-> <<>>,
      console             |-> <<>>,
      exitCode            |-> Running ]

\* The run ends: normally, or by an error thrown up to main's caller.
Return(s) == [s EXCEPT !.pc = "exited", !.exitCode = ExitStatus]

\* a top-level handler that swallows the error
ThrowSwallowed(s, e) == [s EXCEPT !.pc = "exited", !.exitCode = ExitStatus]

Throw(s, e) ==
    [s EXCEPT !.pc = "exited", !.console = TopLevelCatch(s.console, e),
              !.exitCode = ExitStatus]

Completed(s, call, result) == [s EXCEPT !.net = Append(s.net, <<call, result>>)]

Issued(s, call, next) ==
    [s EXCEPT !.net = Append(s.net, <<call, "issued">>), !.pc = next]

Logged(s, level, text) == [s EXCEPT !.console = Append(s.console, Line(level, text))]

\* ------------------------------------------------------------------------
\* Operations: one action per segment of main() between two awaits
\* ------------------------------------------------------------------------

\* main() up to the first await: the two configurations, then
\* exportAirtableDataToGitHub up to the query for the latest record.  The
\* constructor of the table client, new Airtable({ apiKey }), throws when
\* the key is empty.
MainStarted(s) ==
    LET airtableKey == envOrDie(env, AIRTABLE_API_KEY)
        githubKey   == envOrDie(env, GITHUB_API_TOKEN)
        a == [s EXCEPT !.airtableConfig = Config(airtableKey.val)]
        g == [a EXCEPT !.githubConfig = Config(githubKey.val)]
    IN  IF airtableKey.threw THEN Throw(s, airtableKey.error)
        ELSE IF githubKey.threw THEN Throw(a, githubKey.error)
        ELSE IF airtableKey.val = "" THEN Throw(g, ClientKeyError)
        ELSE Issued(g, "selectLatest", "awaitLatest")

Main(r) ==
    /\ run[r].pc = "start"
    /\ run' = [run EXCEPT ![r] = MainStarted(run[r])]
    /\ UNCHANGED <<env, dest, edits>>

\* The rest of exportAirtableDataToGitHub after the query for the latest
\* record returned `found`: the threshold gate.
LatestReturned(s, found, now) ==
    LET lastUpdate == getLastAirtableModificationTime(found)
        timeSince  == TimeSinceLastUpdate(now, lastUpdate)
        c == [Completed(s, "selectLatest", "ok") EXCEPT
                 !.latest = [set |-> TRUE, records |-> found]]
        u == [c EXCEPT !.lastUpdate = lastUpdate]
        t == [u EXCEPT !.timeSinceLastUpdate = timeSince]
    IN  IF lastUpdate.kind # "null"
        THEN IF BelowTreshold(timeSince, timeTreshold)
             THEN Return(Logged(t, "info", BelowTresholdMessage))
             ELSE Issued(Logged(t, "info", OverTresholdMessage), "selectAll", "awaitAll")
        ELSE Return(Logged(u, "warn", NoUpdateTimeMessage))

LatestResponse(r, founds, nows) ==
    /\ run[r].pc = "awaitLatest"
    /\ \/ \E found \in founds, now \in nows :
             run' = [run EXCEPT ![r] = LatestReturned(run[r], found, now)]
       \/ run' = [run EXCEPT ![r] =
                      Throw(Completed(run[r], "selectLatest", "failed"), RequestFailed)]
    /\ UNCHANGED <<env, dest, edits>>

\* const matches = await table.select().all(), then the hash read is issued
AllReturned(s, records) ==
    Issued([Completed(s, "selectAll", "ok") EXCEPT
                !.matches = [set |-> TRUE, records |-> records]],
           "getSHA", "awaitSHA")

AllResponse(r, tables) ==
    /\ run[r].pc = "awaitAll"
    /\ \/ \E records \in tables : run' = [run EXCEPT ![r] = AllReturned(run[r], records)]
       \/ run' = [run EXCEPT ![r] =
                      Throw(Completed(run[r], "selectAll", "failed"), RequestFailed)]
    /\ UNCHANGED <<env, dest, edits>>

\* const currentSHA = await getTargetFileSHA(githubConfig), the upload data,
\* then the create-or-update call is issued
SHAReturned(s, response) ==
    LET got     == getTargetFileSHA(response)
        content == UploadData(s.matches.records)
        c       == Completed(s, "getSHA", IF response.ok THEN "ok" ELSE "failed")
    IN  IF got.threw THEN Throw(c, RequestFailed)
        ELSE Issued([c EXCEPT
                        !.currentSHA = got.sha,
                        !.uploadData = content,
                        !.request = CreateOrUpdateRequest(s.githubConfig, got.sha,
                                                          content)],
                    "createOrUpdate", "awaitCreate")

SHAResponse(r) ==
    /\ run[r].pc = "awaitSHA"
    /\ \E response \in {ContentsResponse(dest), [ok |-> FALSE, sha |-> <<>>]} :
          run' = [run EXCEPT ![r] = SHAReturned(run[r], response)]
    /\ UNCHANGED <<env, dest, edits>>

\* await octokit.repos.createOrUpdateFileContents(...): the destination
\* applies the write, or the call fails
CreateResponse(r) ==
    /\ run[r].pc = "awaitCreate"
    /\ \/ /\ DestinationAccepts(run[r].request, dest)
          /\ dest' = File(Base64Decode(run[r].request.content))
          /\ run' = [run EXCEPT ![r] = Return(Completed(run[r], "createOrUpdate", "ok"))]
       \/ /\ ~DestinationAccepts(run[r].request, dest)
          /\ dest' = dest
          /\ run' = [run EXCEPT ![r] =
                        Throw(Completed(run[r], "createOrUpdate", "failed"),
                              WriteRejected)]
       \/ /\ dest' = dest
          /\ run' = [run EXCEPT ![r] =
                        Throw(Completed(run[r], "createOrUpdate", "failed"),
                              RequestFailed)]
    /\ UNCHANGED <<env, edits>>

\* Somebody edits, deletes or restores the destination file by hand.
ManualEdit ==
    /\ edits < MaxEdits
    /\ edits' = edits + 1
    /\ \E file \in ({File(c) : c \in EditContents} \cup {NoFile}) \ {dest} : dest' = file
    /\ UNCHANGED <<env, run>>

\* ------------------------------------------------------------------------
\* Specifications
\* ------------------------------------------------------------------------

\* One invocation (run 1), any environment.
Init ==
    /\ env \in [{AIRTABLE_API_KEY, GITHUB_API_TOKEN} -> EnvValues]
    /\ dest \in {File(InitialContent), NoFile}
    /\ edits = 0
    /\ run = [r \in Runs |-> InitialRun]

Next ==
    \/ Main(1)
    \/ LatestResponse(1, LatestMatches, NowValues)
    \/ AllResponse(1, Tables)
    \/ SHAResponse(1)
    \/ CreateResponse(1)
    \/ ManualEdit

Spec == Init /\ [][Next]_vars

\* NumRuns overlapping invocations of one deployment whose credentials are
\* set; the latest record carries a timestamp, the destination file exists.
ConcTables == {<<RecordA>>, <<RecordB>>}

ConcNows == {610000, 901000}

ConcMatches == {m \in LatestMatches : m # <<>> /\ NewDate(FieldOf(m[1].fields, lastModifiedField)) = Number(600000)}

InitConc ==
    /\ env = [k \in {AIRTABLE_API_KEY, GITHUB_API_TOKEN} |-> SetTo("secret")]
    /\ dest = File(InitialContent)
    /\ edits = 0
    /\ run = [r \in Runs |-> InitialRun]

NextConc ==
    \/ \E r \in Runs :
          \/ Main(r)
          \/ LatestResponse(r, ConcMatches, ConcNows)
          \/ AllResponse(r, ConcTables)
          \/ SHAResponse(r)
          \/ CreateResponse(r)
    \/ ManualEdit

SpecConc == InitConc /\ [][NextConc]_vars

\* ------------------------------------------------------------------------
\* Properties
\* ------------------------------------------------------------------------

Range(f) == {f[i] : i \in DOMAIN f}

IsPrefix(a, b) == Len(a) <= Len(b) /\ SubSeq(b, 1, Len(a)) = a

IsIssued(e) == e[2] = "issued"

\* the calls a run has issued, in the order it issued them
IssuedCalls(s) ==
    LET issued == SelectSeq(s.net, IsIssued)
    IN  [i \in 1..Len(issued) |-> issued[i][1]]

AllCalls == <<"selectLatest", "selectAll", "getSHA", "createOrUpdate">>

ExportCalls == {"selectAll", "getSHA", "createOrUpdate"}

Failed(s, call) == <<call, "failed">> \in Range(s.net)

NoCallFailed(s) == \A call \in Range(AllCalls) : ~Failed(s, call)

Wrote(s) == <<"createOrUpdate", "ok">> \in Range(s.net)

ErrorLogged(s) == \E i \in 1..Len(s.console) : s.console[i].level = "error"

\* Every call is issued after the call before it has completed, and only if
\* that call succeeded; a completion is of the call issued last.
InSequence(s) ==
    \A i \in 1..Len(s.net) :
        IF i % 2 = 1
        THEN s.net[i][2] = "issued" /\ (i > 1 => s.net[i - 1][2] = "ok")
        ELSE s.net[i][1] = s.net[i - 1][1] /\ s.net[i][2] \in {"ok", "failed"}

\* The latest record's timestamp is a point in time and now is at least /
\* less than timeTreshold seconds after it.
ElapsedAtLeastTreshold(s) ==
    /\ s.lastUpdate.kind = "date"
    /\ ~s.timeSinceLastUpdate.nan
    /\ s.timeSinceLastUpdate.v >= 300 * 1000

ElapsedBelowTreshold(s) ==
    /\ s.lastUpdate.kind = "date"
    /\ ~s.timeSinceLastUpdate.nan
    /\ s.timeSinceLastUpdate.v < 300 * 1000

\* C1 as stated: a run whose freshness query succeeded with an elapsed time of
\* at least timeTreshold seconds issues exactly one fetch-all, then one hash
\* read, then one create-or-update call.
C1_ExportExactlyOnce ==
    \A r \in Runs :
        (run[r].pc = "exited" /\ ElapsedAtLeastTreshold(run[r]))
            => IssuedCalls(run[r]) = AllCalls

\* C1 amended: such a run issues the fetch-all exactly once and at once; it
\* issues the hash read and then the create-or-update call at most once each,
\* in this order, each only after the call before it completed successfully;
\* and if none of its calls fails it issues each of the three exactly once.
C1_ExportOnceUnlessACallFails ==
    \A r \in Runs :
        ElapsedAtLeastTreshold(run[r]) =>
            /\ IsPrefix(<<"selectLatest", "selectAll">>, IssuedCalls(run[r]))
            /\ IsPrefix(IssuedCalls(run[r]), AllCalls)
            /\ InSequence(run[r])
            /\ (run[r].pc = "exited" /\ NoCallFailed(run[r]))
                  => /\ IssuedCalls(run[r]) = AllCalls
                     /\ Len(run[r].net) = 2 * Len(AllCalls)

\* a run that exported with exactly timeTreshold seconds elapsed
C1_Witness ==
    \E r \in Runs :
        /\ run[r].pc = "exited"
        /\ run[r].timeSinceLastUpdate = Number(300000)
        /\ Wrote(run[r])

\* C2: a run whose latest timestamp is less than timeTreshold seconds before
\* now issues no fetch-all, no hash read and no create-or-update call, logs
\* the skip as information and exits with status 0 without an error; the
\* destination changes only by a manual edit or by the write of a run that is
\* not such a run.
C2_NoExportBelowTreshold ==
    /\ [](\A r \in Runs :
            ElapsedBelowTreshold(run[r]) =>
                /\ run[r].pc = "exited"
                /\ IssuedCalls(run[r]) = <<"selectLatest">>
                /\ ~run[r].request.sent
                /\ run[r].console = <<Line("info", BelowTresholdMessage)>>
                /\ run[r].exitCode = 0)
    /\ [][dest' # dest =>
            \/ edits' # edits
            \/ \E r \in Runs : /\ ~ElapsedBelowTreshold(run[r])
                               /\ ~Wrote(run[r]) /\ Wrote(run'[r])]_vars

\* a run skipped 10 s after the latest update
C2_Witness ==
    \E r \in Runs :
        /\ run[r].pc = "exited"
        /\ run[r].timeSinceLastUpdate = Number(10000)
        /\ run[r].latest.set

\* C3: when the query for the latest record finds no record,
\* getLastAirtableModificationTime returns null without raising, and the run
\* issues no further call, logs a warning and exits with status 0.
C3_EmptyTableNoExport ==
    \A r \in Runs :
        (run[r].latest.set /\ run[r].latest.records = <<>>) =>
            /\ run[r].lastUpdate = NullDate
            /\ run[r].pc = "exited"
            /\ run[r].net = <<(<<"selectLatest", "issued">>), (<<"selectLatest", "ok">>)>>
            /\ ~run[r].request.sent
            /\ run[r].console = <<Line("warn", NoUpdateTimeMessage)>>
            /\ run[r].exitCode = 0

C3_Witness ==
    \E r \in Runs :
        run[r].latest.set /\ run[r].latest.records = <<>> /\ run[r].pc = "exited"

\* C4: a failed call is the last call of its run; a run whose freshness
\* query, fetch-all or hash read failed issues no create-or-update call and
\* writes nothing; a create-or-update call carries the defined hash that the
\* successful hash read of the same run returned.
C4_NoCallAfterFailure ==
    \A r \in Runs :
        /\ \A i \in 1..Len(run[r].net) :
              run[r].net[i][2] = "failed" => i = Len(run[r].net) /\ run[r].pc = "exited"
        /\ (\E call \in {"selectLatest", "selectAll", "getSHA"} : Failed(run[r], call))
              => /\ "createOrUpdate" \notin Range(IssuedCalls(run[r]))
                 /\ ~run[r].request.sent
                 /\ ~Wrote(run[r])
        /\ ("createOrUpdate" \in Range(IssuedCalls(run[r])) \/ run[r].request.sent)
              => /\ <<"getSHA", "ok">> \in Range(run[r].net)
                 /\ run[r].request.sent
                 /\ run[r].request.sha.set
                 /\ run[r].request.sha = run[r].currentSHA

\* a run that ended with the failure of its hash read
C4_Witness ==
    \E r \in Runs :
        /\ run[r].pc = "exited"
        /\ Len(run[r].net) = 6
        /\ run[r].net[6] = <<"getSHA", "failed">>

\* C5: with AIRTABLE_API_KEY or GITHUB_API_TOKEN not set, a run issues no
\* call at all: it ends in its first step with the error logged.
C5_MissingCredentialNoCall ==
    (~env[AIRTABLE_API_KEY].set \/ ~env[GITHUB_API_TOKEN].set) =>
        \A r \in Runs :
            /\ run[r].net = <<>>
            /\ ~run[r].request.sent
            /\ run[r].pc \in {"start", "exited"}
            /\ run[r].pc = "exited" =>
                  run[r].console =
                    <<Line("error",
                           IF ~env[AIRTABLE_API_KEY].set
                           THEN "Please define the AIRTABLE_API_KEY env variable."
                           ELSE "Please define the GITHUB_API_TOKEN env variable.")>>

\* a run that ended because GITHUB_API_TOKEN alone is not set
C5_Witness ==
    /\ env[AIRTABLE_API_KEY].set /\ ~env[GITHUB_API_TOKEN].set
    /\ \E r \in Runs : run[r].pc = "exited"

\* C6: when the create-or-update call of a run completes and the destination
\* file is no longer the one whose hash the run read (another run wrote it,
\* or it was edited or deleted by hand), the call fails, the error reaches
\* the top-level handler and is logged, the run ends, and the destination is
\* left as it is.
C6_StaleWriteRejected ==
    [][\A r \in Runs :
          (/\ run[r].pc = "awaitCreate"
           /\ run'[r].pc # "awaitCreate"
           /\ (~dest.exists \/ SHAOf(dest.content) # run[r].currentSHA.sha))
          => /\ dest' = dest
             /\ run'[r].pc = "exited"
             /\ run'[r].net = Append(run[r].net, <<"createOrUpdate", "failed">>)
             /\ ~Wrote(run'[r])
             /\ run'[r].console # <<>>
             /\ run'[r].console[Len(run'[r].console)].level = "error"]_vars

\* a run whose write was refused after another run's write went through
C6_Witness ==
    \E r, other \in Runs :
        /\ r # other
        /\ Wrote(run[other])
        /\ run[r].pc = "exited"
        /\ run[r].console[Len(run[r].console)] = Line("error", WriteRejected)
        /\ edits = 0

\* C7 as stated: a run that ended with an error (a failed call or a missing
\* credential, logged by the top-level handler) exits with a non-zero status,
\* and a skipped or successful run exits with status 0.
C7_FailureExitsNonZero ==
    \A r \in Runs :
        run[r].pc = "exited" =>
            IF ErrorLogged(run[r]) THEN run[r].exitCode # 0 ELSE run[r].exitCode = 0

\* C8 as stated: whenever a run has issued a call, both credentials of its
\* configuration records are non-empty strings; a run started with a
\* credential that is not a non-empty string fails fast, without a call.
C8_CredentialsNonEmpty ==
    \A r \in Runs :
        /\ run[r].net # <<>> =>
              run[r].airtableConfig.apiKey # "" /\ run[r].githubConfig.apiKey # ""
        /\ (\E k \in {AIRTABLE_API_KEY, GITHUB_API_TOKEN} : ~env[k].set \/ env[k].val = "")
              => run[r].net = <<>>

\* C8 amended: whenever a run has issued a call, both configuration records
\* are constructed, the source credential is a non-empty string and the
\* destination credential is the string GITHUB_API_TOKEN is set to (which
\* may be empty); no configuration record is constructed from a variable
\* that is not set, and a run with a variable not set ends in its first step
\* without a call.
C8_CredentialsDefined ==
    \A r \in Runs :
        /\ run[r].net # <<>> =>
              /\ run[r].airtableConfig.built /\ run[r].githubConfig.built
              /\ run[r].airtableConfig.apiKey # ""
        /\ run[r].airtableConfig.built =>
              /\ env[AIRTABLE_API_KEY].set
              /\ run[r].airtableConfig.apiKey = env[AIRTABLE_API_KEY].val
        /\ run[r].githubConfig.built =>
              /\ env[GITHUB_API_TOKEN].set
              /\ run[r].githubConfig.apiKey = env[GITHUB_API_TOKEN].val
        /\ (~env[AIRTABLE_API_KEY].set \/ ~env[GITHUB_API_TOKEN].set) =>
              /\ run[r].net = <<>>
              /\ run[r].pc # "start" => run[r].pc = "exited" /\ ErrorLogged(run[r])

\* a run that issued its calls with an empty credential in a configuration
C8_Witness ==
    \E r \in Runs :
        /\ "selectAll" \in Range(IssuedCalls(run[r]))
        /\ run[r].githubConfig.built
        /\ run[r].githubConfig.apiKey = ""

\* the text of JSON.stringify([{"A": 1}, {"B": 2}], null, 2)
ExampleText ==
    <<91, 10, 32, 32, 123, 10, 32, 32, 32, 32, 34, 65, 34, 58, 32, 49, 10, 32, 32,
      125, 44, 10, 32, 32, 123, 10, 32, 32, 32, 32, 34, 66, 34, 58, 32, 50, 10, 32,
      32, 125, 10, 93>>

\* C9: the content of a create-or-update call, base64-decoded, is the
\* 2-space JSON text of the array of the fetched records' field mappings:
\* it parses to an array with one element per fetched record, in the fetched
\* order, each the record's field mapping and nothing else of the record; for
\* the records {"A": 1}, {"B": 2} it is the text of the example.
C9_UploadRoundTrip ==
    \A r \in Runs :
        run[r].request.sent =>
            LET records == run[r].matches.records
                text    == DecodeContent(run[r].request.content)
                parsed  == JSONParse(text)
            IN  /\ run[r].matches.set
                /\ text = toJSON(FieldsOf(records))
                /\ parsed.ok
                /\ parsed.v.t = "arr"
                /\ Len(parsed.v.m) = Len(records)
                /\ \A i \in 1..Len(records) : parsed.v.m[i].v = records[i].fields
                /\ records = <<RecordA, RecordB>> => text = ExampleText

\* an upload of two records, the first with non-ASCII text
C9_Witness ==
    \E r \in Runs :
        /\ run[r].request.sent
        /\ run[r].matches.records = <<RecordC, RecordA>>

\* C10 as stated: a run issues a call of the export only if the freshness
\* query produced a valid point in time at least timeTreshold seconds before
\* now.
C10_ExportOnlyAfterValidTime ==
    \A r \in Runs :
        (\E call \in ExportCalls : call \in Range(IssuedCalls(run[r])))
            => ElapsedAtLeastTreshold(run[r])

====
